---- MODULE Spec2Model ----
(***************************************************************************)
(* Model of the PDFExtractor library tools: the hash-gated incremental     *)
(* library indexer (src/src/indexer.py) and the text search engine         *)
(* (src/src/searcher.py), together with the parts of the extraction        *)
(* adapters that write the artifacts those two consume.                    *)
(***************************************************************************)
EXTENDS Integers, Sequences, FiniteSets, TLC

(***************************************************************************)
(* Bounds of the model.                                                    *)
(***************************************************************************)
\* number of distinct byte contents a source file can take
NumContents == 2
\* number of build_index calls explored in one behaviour
MaxBuilds == 3
\* number of changes the environment makes to the library in one behaviour
MaxEdits == 2

(***************************************************************************)
(* The library on disk.  A path relative to the library root is the triple *)
(* <<parent directory, stem, suffix>>, which is what pathlib's .parent,    *)
(* .stem and .suffix take apart.                                           *)
(***************************************************************************)
LibraryFiles ==
    << <<"", "a", ".pdf">>,
       <<"sub", "b", ".pdf">>,
       <<"", "notes", ".md">> >>

Paths == { LibraryFiles[i] : i \in 1..Len(LibraryFiles) }

Contents == 1..NumContents

stem(p) == p[2]
suffix(p) == p[3]
with_suffix(p, s) == <<p[1], p[2], s>>
\* str.lower() on the suffixes that occur
lower(s) ==
    CASE s = ".PDF" -> ".pdf"
      [] s = ".MD" -> ".md"
      [] s = ".DOCX" -> ".docx"
      [] OTHER -> s

SUPPORTED_EXTENSIONS == {".pdf", ".md", ".markdown", ".docx"}

LibraryRoot == "/library"
\* Path.absolute() of a path under the library root
absolute(p) == <<LibraryRoot, p>>

(***************************************************************************)
(* JSON values.  A dict is a function from its keys; dict.get is Get.      *)
(***************************************************************************)
EmptyDict == [k \in {} |-> 0]
Get(d, k, default) == IF k \in DOMAIN d THEN d[k] ELSE default

\* a file that does not exist / a file that json.load rejects
Absent == [kind |-> "absent"]
Corrupt == [kind |-> "corrupt"]
JsonFile(obj) == [kind |-> "json", obj |-> obj]

VARIABLES
    files,        \* files[p]: 0 when p does not exist, else its byte content
    locked,       \* the existing files whose open() raises (no read permission)
    meta_json,    \* meta_json[p]: the <stem>_metadata.json next to p
    full_json,    \* full_json[p]: the <stem>.json next to p
    index_file,   \* library_index.json
    edits,        \* number of changes made to the library by its environment
    builds,       \* number of build_index calls so far
    ret,          \* what the most recent build_index call did and returned
    texts,        \* texts[t]: the text artifact at path t
    sret,         \* what the most recent search call did and returned
    xret          \* what the most recent extraction call did and returned

\* the state the indexer works on, and the state only the search engine reads
ivars == <<files, locked, meta_json, full_json, index_file, builds, edits, ret>>
svars == <<texts, sret>>
xvars == <<xret>>
vars == <<ivars, svars, xvars>>

NoCall == [op |-> "none"]

(***************************************************************************)
(* Content hasher.  SHA-256 is taken to be collision free on the contents  *)
(* of the model: the digest of content c is the pair below.                *)
(***************************************************************************)
compute_file_hash(p) == <<"sha256", files[p]>>

CallsPerBuild == Len(LibraryFiles) + 2
\* datetime.now(): the k-th call made by the running operation
now(k) == builds * CallsPerBuild + k

(***************************************************************************)
(* What the PDF adapter reads out of a document with content c (the        *)
(* parser itself is an external collaborator).                             *)
(***************************************************************************)
extract_metadata(p, c) == [title |-> <<"title", c>>, page_count |-> c]
extract_toc(p, c) == << [level |-> 1, title |-> <<"chapter", c>>, page |-> c] >>

(***************************************************************************)
(* build_index                                                             *)
(***************************************************************************)
\* library_path.rglob("*.pdf"), in directory order
RECURSIVE rglob_pdf(_)
rglob_pdf(i) ==
    IF i > Len(LibraryFiles) THEN <<>>
    ELSE LET p == LibraryFiles[i]
         IN  (IF files[p] # 0 /\ suffix(p) = ".pdf" THEN <<p>> ELSE <<>>)
             \o rglob_pdf(i + 1)

\* SkipsFile with the force flag read the wrong way round
SkipsFile_Inverted(documents, file_key, file_hash, force_reindex) ==
    /\ file_key \in DOMAIN documents
    /\ Get(documents[file_key], "file_hash", "null") = file_hash
    /\ force_reindex

\* SkipsFile without the comparison of the hashes
SkipsFile_KeyOnly(documents, file_key, file_hash, force_reindex) ==
    /\ file_key \in DOMAIN documents
    /\ ~force_reindex

\* lines 52-55: the test that lets the loop `continue`
SkipsFile(documents, file_key, file_hash, force_reindex) ==
    /\ file_key \in DOMAIN documents
    /\ Get(documents[file_key], "file_hash", "null") = file_hash
    /\ ~force_reindex

\* NewEntry with <stem>.json looked up before <stem>_metadata.json
NewEntry_JsonFirst(pdf_path, file_hash, stamp) ==
    IF full_json[pdf_path] # Absent THEN
        IF full_json[pdf_path] = Corrupt THEN [raise |-> "JSONDecodeError"]
        ELSE LET data == full_json[pdf_path].obj
             IN  [file_path |-> absolute(pdf_path),
                  file_hash |-> file_hash,
                  metadata |-> Get(data, "metadata", EmptyDict),
                  toc |-> Get(data, "toc", <<>>),
                  extracted |-> TRUE,
                  text_file |-> with_suffix(pdf_path, ".txt"),
                  indexed_date |-> stamp]
    ELSE IF meta_json[pdf_path] # Absent THEN
        IF meta_json[pdf_path] = Corrupt THEN [raise |-> "JSONDecodeError"]
        ELSE LET meta == meta_json[pdf_path].obj
             IN  [file_path |-> absolute(pdf_path),
                  file_hash |-> file_hash,
                  metadata |-> Get(meta, "metadata", EmptyDict),
                  toc |-> Get(meta, "toc", <<>>),
                  extracted |-> TRUE,
                  text_file |-> with_suffix(pdf_path, ".txt"),
                  indexed_date |-> stamp]
    ELSE
        [file_path |-> absolute(pdf_path),
         file_hash |-> file_hash,
         metadata |-> [title |-> stem(pdf_path)],
         toc |-> <<>>,
         extracted |-> FALSE,
         text_file |-> "null",
         indexed_date |-> stamp]

\* lines 57-95: the entry written for pdf_path; "raise" when json.load fails
NewEntry(pdf_path, file_hash, stamp) ==
    IF meta_json[pdf_path] # Absent THEN
        IF meta_json[pdf_path] = Corrupt THEN [raise |-> "JSONDecodeError"]
        ELSE LET meta == meta_json[pdf_path].obj
             IN  [file_path |-> absolute(pdf_path),
                  file_hash |-> file_hash,
                  metadata |-> Get(meta, "metadata", EmptyDict),
                  toc |-> Get(meta, "toc", <<>>),
                  extracted |-> TRUE,
                  text_file |-> with_suffix(pdf_path, ".txt"),
                  indexed_date |-> stamp]
    ELSE IF full_json[pdf_path] # Absent THEN
        IF full_json[pdf_path] = Corrupt THEN [raise |-> "JSONDecodeError"]
        ELSE LET data == full_json[pdf_path].obj
             IN  [file_path |-> absolute(pdf_path),
                  file_hash |-> file_hash,
                  metadata |-> Get(data, "metadata", EmptyDict),
                  toc |-> Get(data, "toc", <<>>),
                  extracted |-> TRUE,
                  text_file |-> with_suffix(pdf_path, ".txt"),
                  indexed_date |-> stamp]
    ELSE
        [file_path |-> absolute(pdf_path),
         file_hash |-> file_hash,
         metadata |-> [title |-> stem(pdf_path)],
         toc |-> <<>>,
         extracted |-> FALSE,
         text_file |-> "null",
         indexed_date |-> stamp]

\* d[k] = v on a dict
Put(d, k, v) == [x \in DOMAIN d \cup {k} |-> IF x = k THEN v ELSE d[x]]

\* lines 48-95: the loop over pdf_files from position i on.  acc carries the
\* documents dict, the number of datetime.now() calls made, and the keys
\* skipped and written so far; an exception ends the loop with raised set.
RECURSIVE IndexLoop(_, _, _, _)
IndexLoop(pdf_files, i, force_reindex, acc) ==
    IF i > Len(pdf_files) THEN acc
    ELSE
        LET pdf_path == pdf_files[i]
            file_key == pdf_path
        IN  IF pdf_path \in locked THEN [acc EXCEPT !.raised = "PermissionError"]
            ELSE
            LET file_hash == compute_file_hash(pdf_path)
            IN  IF SkipsFile(acc.documents, file_key, file_hash, force_reindex)
                THEN IndexLoop(pdf_files, i + 1, force_reindex,
                               [acc EXCEPT !.skipped = @ \cup {file_key}])
                ELSE
                LET entry == NewEntry(pdf_path, file_hash, now(acc.calls))
                IN  IF "raise" \in DOMAIN entry
                    THEN [acc EXCEPT !.raised = entry.raise]
                    ELSE IndexLoop(pdf_files, i + 1, force_reindex,
                             [acc EXCEPT
                                 !.documents = Put(@, file_key, entry),
                                 !.calls = @ + 1,
                                 !.written = @ \cup {file_key}])

\* LoadExisting that never reads the index from disk
LoadExisting_Never(force_reindex) == EmptyDict

\* LoadExisting that reads the index from disk whatever the force flag
LoadExisting_Always(force_reindex) ==
    IF index_file # Absent THEN index_file.obj ELSE EmptyDict

\* lines 35-39: the index loaded from disk, {} when absent or forced
LoadExisting(force_reindex) ==
    IF index_file # Absent /\ ~force_reindex THEN index_file.obj ELSE EmptyDict

\* number of entries with a truthy "extracted"
ExtractedCount(documents) ==
    Cardinality({k \in DOMAIN documents : Get(documents[k], "extracted", FALSE)})

\* AssembleIndex that stamps created_date anew on every build
AssembleIndex_FreshCreated(existing_index, documents, calls) ==
    [library_path |-> absolute(<<"", "", "">>),
     created_date |-> now(calls),
     updated_date |-> now(calls + 1),
     total_documents |-> Cardinality(DOMAIN documents),
     extracted_count |-> ExtractedCount(documents),
     documents |-> documents]

\* lines 97-105: the index dict; the default of .get is evaluated eagerly,
\* so datetime.now() is called twice here
AssembleIndex(existing_index, documents, calls) ==
    [library_path |-> absolute(<<"", "", "">>),
     created_date |-> Get(existing_index, "created_date", now(calls)),
     updated_date |-> now(calls + 1),
     total_documents |-> Cardinality(DOMAIN documents),
     extracted_count |-> ExtractedCount(documents),
     documents |-> documents]

\* r is the record of a build_index call that returned a catalog
RanBuild(r) == r.op = "build_index" /\ r.outcome = "ok"

\* what the call recorded in r lets the next call follow
Follows(r) ==
    IF RanBuild(r) THEN (IF r.force THEN "forced build" ELSE "build") ELSE "other"

\* BuildIndex that persists the entries prepared so far when the loop fails
BuildIndex_PartialWrite(force_reindex) ==
    /\ builds < MaxBuilds
    /\ LET existing_index == LoadExisting(force_reindex)
           pdf_files == rglob_pdf(1)
           start == [documents |-> Get(existing_index, "documents", EmptyDict),
                     calls |-> 0, skipped |-> {}, written |-> {},
                     raised |-> "none"]
           done == IndexLoop(pdf_files, 1, force_reindex, start)
       IN  /\ index_file' =
                  JsonFile(AssembleIndex(existing_index, done.documents, done.calls))
           /\ ret' = [op |-> "build_index", force |-> force_reindex,
                      outcome |-> IF done.raised # "none" THEN "raised" ELSE "ok",
                      error |-> done.raised,
                      skipped |-> done.skipped, written |-> done.written,
                      replaced |-> done.written \cap DOMAIN start.documents,
                      follows |-> Follows(ret)]
    /\ builds' = builds + 1
    /\ UNCHANGED <<files, locked, meta_json, full_json, edits, svars, xvars>>

BuildIndex(force_reindex) ==
    /\ builds < MaxBuilds
    /\ LET existing_index == LoadExisting(force_reindex)
           pdf_files == rglob_pdf(1)
           start == [documents |-> Get(existing_index, "documents", EmptyDict),
                     calls |-> 0, skipped |-> {}, written |-> {},
                     raised |-> "none"]
           done == IndexLoop(pdf_files, 1, force_reindex, start)
       IN  IF done.raised # "none"
           THEN /\ ret' = [op |-> "build_index", force |-> force_reindex,
                           outcome |-> "raised", error |-> done.raised,
                           skipped |-> done.skipped, written |-> done.written,
                           replaced |-> done.written \cap DOMAIN start.documents,
                           follows |-> Follows(ret)]
                /\ UNCHANGED index_file
           ELSE /\ index_file' =
                       JsonFile(AssembleIndex(existing_index, done.documents, done.calls))
                /\ ret' = [op |-> "build_index", force |-> force_reindex,
                           outcome |-> "ok", error |-> "none",
                           skipped |-> done.skipped, written |-> done.written,
                           replaced |-> done.written \cap DOMAIN start.documents,
                           follows |-> Follows(ret)]
    /\ builds' = builds + 1
    /\ UNCHANGED <<files, locked, meta_json, full_json, edits, svars, xvars>>

(***************************************************************************)
(* extract_pdf: the PDF adapter writes the sidecar artifacts next to the   *)
(* source file.                                                            *)
(***************************************************************************)
OutputFormats == {"txt", "json", "both"}

ExtractPdf(p, output_format, include_metadata) ==
    /\ edits < MaxEdits
    /\ edits' = edits + 1
    /\ suffix(p) = ".pdf"
    /\ files[p] # 0
    /\ p \notin locked
    /\ output_format \in {"json", "both"} \/ include_metadata
    /\ LET result == [source_file |-> <<stem(p), suffix(p)>>,
                      file_hash |-> compute_file_hash(p),
                      metadata |-> extract_metadata(p, files[p]),
                      toc |-> extract_toc(p, files[p])]
       IN  /\ full_json' = IF output_format \in {"json", "both"}
                           THEN [full_json EXCEPT ![p] = JsonFile(result)]
                           ELSE full_json
           /\ meta_json' = IF include_metadata
                           THEN [meta_json EXCEPT ![p] = JsonFile(result)]
                           ELSE meta_json
    /\ ret' = NoCall
    /\ UNCHANGED <<files, locked, index_file, builds, svars, xvars>>

(***************************************************************************)
(* The environment: source files and artifacts are written, removed and    *)
(* made unreadable between calls.                                          *)
(***************************************************************************)
WriteFile(p, c) ==
    /\ edits < MaxEdits
    /\ edits' = edits + 1
    /\ files[p] # c
    /\ suffix(p) = ".pdf" \/ c = 1
    /\ files' = [files EXCEPT ![p] = c]
    /\ ret' = NoCall
    /\ UNCHANGED <<locked, meta_json, full_json, index_file, builds, svars, xvars>>

DeleteFile(p) ==
    /\ edits < MaxEdits
    /\ edits' = edits + 1
    /\ files[p] # 0
    /\ files' = [files EXCEPT ![p] = 0]
    /\ locked' = locked \ {p}
    /\ ret' = NoCall
    /\ UNCHANGED <<meta_json, full_json, index_file, builds, svars, xvars>>

Chmod(p) ==
    /\ edits < MaxEdits
    /\ edits' = edits + 1
    /\ files[p] # 0
    /\ suffix(p) = ".pdf"
    /\ locked' = IF p \in locked THEN locked \ {p} ELSE locked \cup {p}
    /\ ret' = NoCall
    /\ UNCHANGED <<files, meta_json, full_json, index_file, builds, svars, xvars>>

\* a sidecar is removed, damaged, or replaced by a JSON object without the
\* "metadata" and "toc" keys
Bare == JsonFile([source_file |-> "other"])
HandMade == {Absent, Corrupt, Bare}

WriteSidecar(p, which, doc) ==
    /\ edits < MaxEdits
    /\ edits' = edits + 1
    /\ suffix(p) = ".pdf"
    /\ \/ /\ which = "metadata"
          /\ doc # Bare
          /\ meta_json[p] # doc
          /\ meta_json' = [meta_json EXCEPT ![p] = doc]
          /\ UNCHANGED full_json
       \/ /\ which = "full"
          /\ doc # Corrupt
          /\ full_json[p] # doc
          /\ full_json' = [full_json EXCEPT ![p] = doc]
          /\ UNCHANGED meta_json
    /\ ret' = NoCall
    /\ UNCHANGED <<files, locked, index_file, builds, svars, xvars>>

(***************************************************************************)
(* Text.  A string is the sequence of its characters; offsets are Python's *)
(* (the first character is at offset 0).                                   *)
(***************************************************************************)
\* s[i] and s[a:b]
At(s, i) == s[i + 1]
Slice(s, a, b) == SubSeq(s, a + 1, b)
\* c * n
Rep(c, n) == [i \in 1..n |-> c]
\* s[i:].startswith(lit)
StartsWith(s, i, lit) ==
    /\ i + Len(lit) <= Len(s)
    /\ \A k \in 1..Len(lit) : s[i + k] = lit[k]

DigitChars == <<"0", "1", "2", "3", "4", "5", "6", "7", "8", "9">>
Digits == { DigitChars[d] : d \in 1..10 }
IsDigit(c) == c \in Digits
DigitVal(c) == (CHOOSE d \in 1..10 : DigitChars[d] = c) - 1

\* str(n) of an int n >= 0
RECURSIVE str(_)
str(n) ==
    IF n < 10 THEN <<DigitChars[n + 1]>>
    ELSE str(n \div 10) \o <<DigitChars[(n % 10) + 1]>>

\* int(s) of a run of digits
RECURSIVE int(_)
int(s) ==
    IF Len(s) = 0 THEN 0
    ELSE int(SubSeq(s, 1, Len(s) - 1)) * 10 + DigitVal(s[Len(s)])

UpperCase == <<"A", "B", "C", "D", "E", "F", "G", "H", "I", "J", "K", "L", "M", "N", "O", "P", "Q", "R", "S", "T", "U", "V", "W", "X", "Y", "Z">>
LowerCase == <<"a", "b", "c", "d", "e", "f", "g", "h", "i", "j", "k", "l", "m", "n", "o", "p", "q", "r", "s", "t", "u", "v", "w", "x", "y", "z">>
LowerOf == [c \in { UpperCase[k] : k \in 1..26 } |->
               LowerCase[CHOOSE k \in 1..26 : UpperCase[k] = c]]
\* c.lower()
lower_char(c) == IF c \in DOMAIN LowerOf THEN LowerOf[c] ELSE c

\* the characters str.strip() and str.split() treat as whitespace
Whitespace == {" ", "\n", "\t", "\r", "\f"}
\* the characters of the literal " \n\t" at lines 92 and 94
WordBreaks == {" ", "\n", "\t"}

\* s.strip()
RECURSIVE lstrip(_)
lstrip(s) ==
    IF Len(s) > 0 /\ s[1] \in Whitespace THEN lstrip(Tail(s)) ELSE s
RECURSIVE rstrip(_)
rstrip(s) ==
    IF Len(s) > 0 /\ s[Len(s)] \in Whitespace
    THEN rstrip(SubSeq(s, 1, Len(s) - 1)) ELSE s
strip(s) == rstrip(lstrip(s))

\* s.split(): the words of s from index i on (1-based), a word being a
\* maximal run of characters that are not whitespace
RECURSIVE SkipSpace(_, _)
SkipSpace(s, i) ==
    IF i <= Len(s) /\ s[i] \in Whitespace THEN SkipSpace(s, i + 1) ELSE i
RECURSIVE SkipWord(_, _)
SkipWord(s, i) ==
    IF i <= Len(s) /\ s[i] \notin Whitespace THEN SkipWord(s, i + 1) ELSE i
RECURSIVE SplitFrom(_, _)
SplitFrom(s, i) ==
    LET b == SkipSpace(s, i)
        e == SkipWord(s, b)
    IN  IF b > Len(s) THEN <<>>
        ELSE <<SubSeq(s, b, e - 1)>> \o SplitFrom(s, e)
split(s) == SplitFrom(s, 1)

\* " ".join(words)
RECURSIVE JoinFrom(_, _)
JoinFrom(words, k) ==
    IF k > Len(words) THEN <<>>
    ELSE (IF k > 1 THEN <<" ">> ELSE <<>>) \o words[k] \o JoinFrom(words, k + 1)
join(words) == JoinFrom(words, 1)

\* s.split("\n")[0]
RECURSIVE FirstLineEnd(_, _)
FirstLineEnd(s, i) ==
    IF i >= Len(s) \/ At(s, i) = "\n" THEN i ELSE FirstLineEnd(s, i + 1)
first_line(s) == Slice(s, 0, FirstLineEnd(s, 0))

(***************************************************************************)
(* The text renditions the adapters write (the search corpus).             *)
(***************************************************************************)
NL == <<"\n">>
None == <<>>

\* the pieces of the marker lines the adapters write:
\* f"--- Page {n} ---" and f"--- Section {n}: {title} ---"
PageMarkerHead == <<"-", "-", "-", " ", "P", "a", "g", "e", " ">>
SectionMarkerHead == <<"-", "-", "-", " ", "S", "e", "c", "t", "i", "o", "n", " ">>
MarkerTail == <<" ", "-", "-", "-">>

\* extractor.py 147-158: the .txt of a PDF; pages[k] is the text of page k
RECURSIVE RenderPages(_, _)
RenderPages(pages, k) ==
    IF k > Len(pages) THEN <<>>
    ELSE NL \o PageMarkerHead \o str(pages[k].page) \o MarkerTail \o NL \o NL
         \o pages[k].text \o NL
         \o RenderPages(pages, k + 1)

render_pdf_text(title, author, source_name, pages) ==
    <<"#", " ">> \o title \o NL
    \o (IF author # None THEN <<"#", " ", "A", "u", "t", "h", "o", "r", ":", " ">> \o author \o NL ELSE <<>>)
    \o <<"#", " ", "S", "o", "u", "r", "c", "e", ":", " ">> \o source_name \o NL
    \o <<"#", " ", "P", "a", "g", "e", "s", ":", " ">> \o str(Len(pages)) \o NL
    \o Rep("=", 60) \o NL \o NL
    \o RenderPages(pages, 1)

\* markdown_extractor.py 174-188 and docx_extractor.py 173-184: the .txt of
\* a Markdown or Word document
RECURSIVE RenderSections(_, _)
RenderSections(sections, k) ==
    IF k > Len(sections) THEN <<>>
    ELSE NL \o SectionMarkerHead \o str(sections[k].section) \o <<":", " ">>
         \o sections[k].title \o MarkerTail \o NL \o NL
         \o sections[k].text \o NL
         \o RenderSections(sections, k + 1)

render_sections_text(title, author, source_name, word_count, sections) ==
    <<"#", " ">> \o title \o NL
    \o (IF author # None THEN <<"#", " ", "A", "u", "t", "h", "o", "r", ":", " ">> \o author \o NL ELSE <<>>)
    \o <<"#", " ", "S", "o", "u", "r", "c", "e", ":", " ">> \o source_name \o NL
    \o <<"#", " ", "W", "o", "r", "d", "s", ":", " ">> \o str(word_count) \o NL
    \o Rep("=", 60) \o NL \o NL
    \o RenderSections(sections, 1)

(***************************************************************************)
(* search_file                                                             *)
(***************************************************************************)
\* The patterns of the model use this part of the re syntax: "(" and ")"
\* group, "." matches any character but a newline, every other character
\* matches itself.  re.compile raises re.error on unbalanced parentheses.
RECURSIVE Balanced(_, _, _)
Balanced(pattern, k, depth) ==
    IF k > Len(pattern) THEN depth = 0
    ELSE IF pattern[k] = "(" THEN Balanced(pattern, k + 1, depth + 1)
    ELSE IF pattern[k] = ")" THEN depth > 0 /\ Balanced(pattern, k + 1, depth - 1)
    ELSE Balanced(pattern, k + 1, depth)

NotParen(c) == c \notin {"(", ")"}

\* lines 49-58: the compiled pattern, one matcher per character consumed
re_compile(pattern, is_regex) ==
    IF is_regex THEN
        IF ~Balanced(pattern, 1, 0) THEN [ok |-> FALSE, elems |-> <<>>]
        ELSE LET body == SelectSeq(pattern, NotParen)
             IN  [ok |-> TRUE,
                  elems |-> [k \in 1..Len(body) |->
                               [any |-> body[k] = ".", ch |-> body[k]]]]
    ELSE [ok |-> TRUE,
          elems |-> [k \in 1..Len(pattern) |-> [any |-> FALSE, ch |-> pattern[k]]]]

ElemMatches(e, c, case_sensitive) ==
    IF e.any THEN c # "\n"
    ELSE IF case_sensitive THEN c = e.ch
    ELSE lower_char(c) = lower_char(e.ch)

MatchesAt(elems, content, i, case_sensitive) ==
    /\ i + Len(elems) <= Len(content)
    /\ \A k \in 1..Len(elems) : ElemMatches(elems[k], content[i + k], case_sensitive)

\* the least element of a non-empty set of offsets
Least(S) == CHOOSE x \in S : \A y \in S : x <= y

\* regex.finditer(content): the spans of the matches, leftmost first and
\* not overlapping.  starts holds every offset at which the pattern matches;
\* the scan resumes at offset i after each match.
RECURSIVE FindFrom(_, _, _)
FindFrom(starts, n, i) ==
    LET ahead == {j \in starts : j >= i}
    IN  IF ahead = {} THEN <<>>
        ELSE LET j == Least(ahead)
             IN  <<[start |-> j, end |-> j + n]>> \o FindFrom(starts, n, j + n)

finditer(elems, content, case_sensitive) ==
    FindFrom({j \in 0..(Len(content) - Len(elems)) :
                 MatchesAt(elems, content, j, case_sensitive)},
             Len(elems), 0)

\* line 61: a match of r"--- Page (\d+) ---" at offset i ends at this
\* offset; -1 when there is none
RECURSIVE DigitRunEnd(_, _)
DigitRunEnd(s, i) ==
    IF i < Len(s) /\ IsDigit(At(s, i)) THEN DigitRunEnd(s, i + 1) ELSE i

\* the literal parts of page_pattern
PagePatternHead == <<"-", "-", "-", " ", "P", "a", "g", "e", " ">>
PagePatternTail == <<" ", "-", "-", "-">>

PageMatchEnd(s, i) ==
    IF ~StartsWith(s, i, PagePatternHead) THEN -1
    ELSE LET d == i + Len(PagePatternHead)
             e == DigitRunEnd(s, d)
         IN  IF e > d /\ StartsWith(s, e, PagePatternTail)
             THEN e + Len(PagePatternTail) ELSE -1

\* page_pattern.finditer(content): the markers, leftmost first and not
\* overlapping, found among the offsets at which page_pattern matches
RECURSIVE PageFindFrom(_, _, _)
PageFindFrom(content, starts, i) ==
    LET ahead == {j \in starts : j >= i}
    IN  IF ahead = {} THEN <<>>
        ELSE LET j == Least(ahead)
                 e == PageMatchEnd(content, j)
             IN  <<[start |-> j, end |-> e,
                    group1 |-> Slice(content, j + Len(PagePatternHead),
                                     e - Len(PagePatternTail))]>>
                 \o PageFindFrom(content, starts, e)

page_finditer(content) ==
    PageFindFrom(content,
                 {j \in 0..(Len(content) - 1) : PageMatchEnd(content, j) >= 0}, 0)

\* page_positions built from the start of each marker instead of its end
page_positions_FromStart(content) ==
    LET ms == page_finditer(content)
    IN  <<[start_pos |-> 0, page_num |-> 1]>>
        \o [k \in 1..Len(ms) |-> [start_pos |-> ms[k].start,
                                  page_num |-> int(ms[k].group1)]]

\* lines 62-64
page_positions(content) ==
    LET ms == page_finditer(content)
    IN  <<[start_pos |-> 0, page_num |-> 1]>>
        \o [k \in 1..Len(ms) |-> [start_pos |-> ms[k].end,
                                  page_num |-> int(ms[k].group1)]]

\* lines 66-74: the loop from entry k on, page being the value held so far
RECURSIVE PageLoop(_, _, _, _)
PageLoop(positions, k, pos, page) ==
    IF k > Len(positions) THEN page
    ELSE IF pos >= positions[k].start_pos
    THEN PageLoop(positions, k + 1, pos, positions[k].page_num)
    ELSE page

get_page_for_position(positions, pos) == PageLoop(positions, 1, pos, 1)

\* lines 76-80
title_of(file_path, content) ==
    LET line == IF Len(content) > 0 THEN first_line(content) ELSE <<>>
    IN  IF StartsWith(line, 0, <<"#", " ">>)
        THEN strip(Slice(line, 2, Len(line)))
        ELSE stem(file_path)

\* ExpandLeft without the walk back to the start of the word
ExpandLeft_Stay(content, ctx_start) == ctx_start

\* lines 88-95
RECURSIVE ExpandLeft(_, _)
ExpandLeft(content, ctx_start) ==
    IF ctx_start > 0 /\ At(content, ctx_start - 1) \notin WordBreaks
    THEN ExpandLeft(content, ctx_start - 1) ELSE ctx_start
RECURSIVE ExpandRight(_, _)
ExpandRight(content, ctx_end) ==
    IF ctx_end < Len(content) /\ At(content, ctx_end) \notin WordBreaks
    THEN ExpandRight(content, ctx_end + 1) ELSE ctx_end

Max(a, b) == IF a >= b THEN a ELSE b
Min(a, b) == IF a <= b THEN a ELSE b

\* search_result with the leading ellipsis decided by the start of the match
\* instead of the left edge of the window
search_result_EllipsisByMatch(file_path, title, positions, content, m, context_chars) ==
    LET start == m.start
        end == m.end
        ctx_start == ExpandLeft(content, Max(0, start - context_chars))
        ctx_end == ExpandRight(content, Min(Len(content), end + context_chars))
        context == join(split(strip(Slice(content, ctx_start, ctx_end))))
    IN  [file_path |-> file_path,
         title |-> title,
         page |-> get_page_for_position(positions, start),
         context |-> (IF start > 0 THEN <<".", ".", ".">> ELSE <<>>)
                     \o context
                     \o (IF ctx_end < Len(content) THEN <<".", ".", ".">> ELSE <<>>),
         match_start |-> start - ctx_start + (IF ctx_start > 0 THEN 3 ELSE 0),
         match_end |-> end - ctx_start + (IF ctx_start > 0 THEN 3 ELSE 0),
         span |-> [start |-> start, end |-> end,
                   ctx_start |-> ctx_start, ctx_end |-> ctx_end]]

\* lines 84-113: the SearchResult of one match, with the span and the
\* window it was computed from
search_result(file_path, title, positions, content, m, context_chars) ==
    LET start == m.start
        end == m.end
        ctx_start == ExpandLeft(content, Max(0, start - context_chars))
        ctx_end == ExpandRight(content, Min(Len(content), end + context_chars))
        context == join(split(strip(Slice(content, ctx_start, ctx_end))))
    IN  [file_path |-> file_path,
         title |-> title,
         page |-> get_page_for_position(positions, start),
         context |-> (IF ctx_start > 0 THEN <<".", ".", ".">> ELSE <<>>)
                     \o context
                     \o (IF ctx_end < Len(content) THEN <<".", ".", ".">> ELSE <<>>),
         match_start |-> start - ctx_start + (IF ctx_start > 0 THEN 3 ELSE 0),
         match_end |-> end - ctx_start + (IF ctx_start > 0 THEN 3 ELSE 0),
         span |-> [start |-> start, end |-> end,
                   ctx_start |-> ctx_start, ctx_end |-> ctx_end]]

\* a text artifact that exists but is not valid UTF-8
Undecodable == [kind |-> "undecodable"]
TextFile(content, origin) == [kind |-> "text", content |-> content, origin |-> origin]

\* lines 41-115.  raised names the exception that leaves the function,
\* opened says whether the file was opened before it returned or raised.
search_file(file_path, pattern, is_regex, case_sensitive, context_chars) ==
    IF texts[file_path] = Absent
    THEN [raised |-> "none", opened |-> FALSE, results |-> <<>>]
    ELSE IF texts[file_path] = Undecodable
    THEN [raised |-> "UnicodeDecodeError", opened |-> TRUE, results |-> <<>>]
    ELSE
        LET content == texts[file_path].content
            regex == re_compile(pattern, is_regex)
        IN  IF ~regex.ok
            THEN [raised |-> "ValueError", opened |-> TRUE, results |-> <<>>]
            ELSE
                LET positions == page_positions(content)
                    title == title_of(file_path, content)
                    ms == finditer(regex.elems, content, case_sensitive)
                IN  [raised |-> "none", opened |-> TRUE,
                     results |-> [k \in 1..Len(ms) |->
                         search_result(file_path, title, positions, content,
                                       ms[k], context_chars)]]

(***************************************************************************)
(* search_library                                                          *)
(***************************************************************************)
\* the .txt files that can exist under the library root, in rglob order
TextFiles ==
    << <<"", "a", ".txt">>,
       <<"", "a_toc", ".txt">>,
       <<"", "notes", ".txt">>,
       <<"sub", "b", ".txt">>,
       <<"sub", "notes", ".txt">> >>

TextPaths == { TextFiles[i] : i \in 1..Len(TextFiles) }

\* f.name.endswith("_toc.txt") on the names that occur
EndsWithToc(t) == stem(t) \in {"a_toc"}

\* lines 160-163
RECURSIVE rglob_txt(_)
rglob_txt(i) ==
    IF i > Len(TextFiles) THEN <<>>
    ELSE LET t == TextFiles[i]
         IN  (IF texts[t] # Absent /\ ~EndsWithToc(t) THEN <<t>> ELSE <<>>)
             \o rglob_txt(i + 1)

\* Path.exists() of a .pdf path
PdfExists(p) == p \in Paths /\ files[p] # 0

\* max_results_per_file = None
NoLimit == -1

\* lines 146-157: the index, when library_index.json exists
LoadIndex == IF index_file # Absent THEN index_file.obj ELSE EmptyDict

\* lines 180-206: the entry of one file with results, and its key
FileKey(txt_path) ==
    LET pdf_path == with_suffix(txt_path, ".pdf")
    IN  IF PdfExists(pdf_path) THEN pdf_path ELSE <<stem(txt_path)>>

Truncate(results, max_results_per_file) ==
    IF max_results_per_file # NoLimit /\ max_results_per_file # 0
       /\ Len(results) > max_results_per_file
    THEN SubSeq(results, 1, max_results_per_file)
    ELSE results

FileEntry(txt_path, results, index) ==
    LET pdf_path == with_suffix(txt_path, ".pdf")
        file_key == FileKey(txt_path)
        documents == Get(index, "documents", EmptyDict)
        title == IF index # EmptyDict /\ file_key \in DOMAIN documents
                 THEN Get(Get(documents[file_key], "metadata", EmptyDict),
                          "title", results[1].title)
                 ELSE results[1].title
    IN  [title |-> title,
         file_path |-> txt_path,
         pdf_path |-> IF PdfExists(pdf_path) THEN pdf_path ELSE None,
         match_count |-> Len(results),
         matches |-> [k \in 1..Len(results) |->
                         [page |-> results[k].page, context |-> results[k].context]]]

\* lines 165-206: the loop over text_files from position i on; an exception
\* raised by search_file leaves the loop (and the call)
RECURSIVE LibraryLoop(_, _, _, _, _, _, _, _, _)
LibraryLoop(text_files, i, pattern, is_regex, case_sensitive, context_chars, max_results_per_file, index, acc) ==
    IF i > Len(text_files) THEN acc
    ELSE
        LET txt_path == text_files[i]
            found == search_file(txt_path, pattern, is_regex, case_sensitive,
                                 context_chars)
            opened == IF found.opened THEN Append(acc.opened, txt_path)
                      ELSE acc.opened
        IN  IF found.raised # "none"
            THEN [acc EXCEPT !.raised = found.raised, !.opened = opened]
            ELSE IF found.results = <<>>
            THEN LibraryLoop(text_files, i + 1, pattern, is_regex, case_sensitive,
                             context_chars, max_results_per_file, index,
                             [acc EXCEPT !.opened = opened])
            ELSE
                LET results == Truncate(found.results, max_results_per_file)
                IN  LibraryLoop(text_files, i + 1, pattern, is_regex,
                        case_sensitive, context_chars, max_results_per_file, index,
                        [acc EXCEPT
                            !.opened = opened,
                            !.results_by_file =
                                Put(@, FileKey(txt_path),
                                    FileEntry(txt_path, results, index)),
                            !.total_matches = @ + Len(results)])

SearchLibrary(pattern, is_regex, case_sensitive, context_chars, max_results_per_file) ==
    /\ sret = NoCall
    /\ LET text_files == rglob_txt(1)
           done == LibraryLoop(text_files, 1, pattern, is_regex, case_sensitive,
                               context_chars, max_results_per_file, LoadIndex,
                               [results_by_file |-> EmptyDict, total_matches |-> 0,
                                opened |-> <<>>, raised |-> "none"])
       IN  sret' =
             [op |-> "search_library",
              pattern |-> pattern, is_regex |-> is_regex,
              case_sensitive |-> case_sensitive,
              context_chars |-> context_chars,
              max_results_per_file |-> max_results_per_file,
              outcome |-> IF done.raised = "none" THEN "ok" ELSE "raised",
              error |-> done.raised,
              opened |-> done.opened,
              report |->
                 IF done.raised # "none" THEN EmptyDict
                 ELSE [pattern |-> pattern,
                       is_regex |-> is_regex,
                       case_sensitive |-> case_sensitive,
                       files_searched |-> Len(text_files),
                       files_with_matches |-> Cardinality(DOMAIN done.results_by_file),
                       total_matches |-> done.total_matches,
                       results |-> done.results_by_file]]
    /\ UNCHANGED <<ivars, texts, xvars>>

\* a direct call of search_file on one text path
SearchFile(file_path, pattern, is_regex, case_sensitive, context_chars) ==
    /\ sret = NoCall
    /\ LET found == search_file(file_path, pattern, is_regex, case_sensitive,
                                context_chars)
       IN  sret' =
             [op |-> "search_file",
              file_path |-> file_path,
              pattern |-> pattern, is_regex |-> is_regex,
              case_sensitive |-> case_sensitive,
              context_chars |-> context_chars,
              outcome |-> IF found.raised = "none" THEN "ok" ELSE "raised",
              error |-> found.raised,
              results |-> found.results]
    /\ UNCHANGED <<ivars, texts, xvars>>

(***************************************************************************)
(* The libraries and the queries the search engine is run on.              *)
(***************************************************************************)
Demo == <<"D", "e", "m", "o">>

\* a two-page PDF
PdfPages ==
    << [page |-> 1, text |-> <<"a", "l", "p", "h", "a", " ", "b", "e", "t", "a">>],
       [page |-> 2, text |-> <<"b", "e", "t", "a", " ", "g", "a", "m", "m", "a", "\n", "B", "e", "t", "a">>] >>
PdfText == TextFile(render_pdf_text(Demo, None, <<"a", ".", "p", "d", "f">>, PdfPages),
                    [adapter |-> "pdf", units |-> PdfPages])

\* a three-page PDF with an author, an empty page and a page that quotes a
\* page marker
QuotingPages ==
    << [page |-> 1, text |-> <<>>],
       [page |-> 2, text |-> <<"s", "e", "e", " ", "P", "a", "g", "e", " ", "9", " ", "b", "e", "t", "a">>],
       [page |-> 3, text |-> <<"a", "s", " ", "-", "-", "-", " ", "P", "a", "g", "e", " ", "7", " ", "-", "-", "-", " ", "s", "a", "y", "s", "\n", "b", "e", "t", "a">>] >>
QuotingText == TextFile(render_pdf_text(Demo, <<"A", "n", "n">>, <<"a", ".", "p", "d", "f">>, QuotingPages),
                        [adapter |-> "pdf", units |-> QuotingPages])

\* a Markdown document with the sections "Intro" and "Usage"
MdSections ==
    << [section |-> 1, title |-> <<"I", "n", "t", "r", "o">>, level |-> 2, text |-> <<"#", "#", " ", "I", "n", "t", "r", "o", "\n", "a", "l", "p", "h", "a", " ", "b", "e", "t", "a">>],
       [section |-> 2, title |-> <<"U", "s", "a", "g", "e">>, level |-> 2, text |-> <<"#", "#", " ", "U", "s", "a", "g", "e", "\n", "b", "e", "t", "a", " ", "g", "a", "m", "m", "a">>] >>
MdText == TextFile(render_sections_text(Demo, None, <<"b", ".", "m", "d">>, 6, MdSections),
                   [adapter |-> "markdown", units |-> MdSections])

\* a text file written by hand, with markers inside lines
RawText == TextFile(<<"b", "e", "t", "a", " ", "o", "n", "e", "\n", "-", "-", "-", " ", "P", "a", "g", "e", " ", "1", "2", " ", "-", "-", "-", "b", "e", "t", "a", " ", "-", "-", "-", " ", "P", "a", "g", "e", " ", "3", " ", "-", "-", "-", "\n", "-", "-", "-", " ", "p", "a", "g", "e", " ", "4", " ", "-", "-", "-", "\n", " ", " ", "g", "a", "m", "m", "a", "\t", "(", "x", ")", " ", "b", "e", "t", "a">>, [adapter |-> "none", units |-> <<>>])

\* a TOC-only artifact
TocText == TextFile(<<"T", "a", "b", "l", "e", " ", "o", "f", " ", "C", "o", "n", "t", "e", "n", "t", "s", ":", " ", "D", "e", "m", "o", "\n", "=", "=", "=", "\n", "\n", "b", "e", "t", "a", " ", ".", ".", ".", ".", ".", ".", ".", ".", " ", "P", "a", "g", "e", " ", "1">>, [adapter |-> "none", units |-> <<>>])

ArtifactChoices(t) ==
    CASE t = TextFiles[1] -> {Absent, PdfText, QuotingText}
      [] t = TextFiles[2] -> {TocText}
      [] t = TextFiles[3] -> {Absent, RawText}
      [] t = TextFiles[4] -> {Absent, MdText, Undecodable}
      [] OTHER -> {Absent, MdText}

Patterns ==
    { <<"b", "e", "t", "a">>,
      <<"g", "a", "m", "m", "a">>,
      <<"P", "a", "g", "e">>,
      <<"b", ".", "t", "a">>,
      <<"(">> }

ContextWidths == {0, 6, 80}
ResultLimits == {NoLimit, 0, 1}

\* the catalog build_index writes for the library as it stands
BuiltCatalog ==
    LET done == IndexLoop(rglob_pdf(1), 1, FALSE,
                          [documents |-> EmptyDict, calls |-> 0, skipped |-> {},
                           written |-> {}, raised |-> "none"])
    IN  JsonFile(AssembleIndex(EmptyDict, done.documents, done.calls))

\* the catalog of a library whose first PDF was indexed and then deleted:
\* a build without force keeps the entry of the deleted file
EarlierCatalog ==
    LET gone == LibraryFiles[1]
        kept == NewEntry(gone, <<"sha256", 1>>, now(0))
        done == IndexLoop(rglob_pdf(1), 1, FALSE,
                          [documents |-> Put(EmptyDict, gone, kept), calls |-> 1,
                           skipped |-> {}, written |-> {}, raised |-> "none"])
    IN  JsonFile(AssembleIndex(EmptyDict, done.documents, done.calls))

\* a library without source files and without catalog, or with all source
\* files and their catalog; no artifacts of the same name
PlainLibrary ==
    /\ files \in {[p \in Paths |-> 0], [p \in Paths |-> 1]}
    /\ index_file = IF files[LibraryFiles[1]] = 0 THEN Absent ELSE BuiltCatalog
    /\ texts[TextFiles[5]] = Absent

\* a library whose first PDF was deleted after it was extracted and
\* indexed: its text artifact and its catalog entry are still there
OrphanLibrary ==
    /\ files = [p \in Paths |-> IF p = LibraryFiles[1] THEN 0 ELSE 1]
    /\ index_file = EarlierCatalog
    /\ texts[TextFiles[1]] # Absent
    /\ \A t \in TextPaths \ {TextFiles[1], TextFiles[2]} : texts[t] = Absent

\* a library of Markdown artifacts, two of them of the same name in
\* different directories
TwinLibrary ==
    /\ files = [p \in Paths |-> 0]
    /\ index_file = Absent
    /\ texts[TextFiles[1]] = Absent
    /\ texts[TextFiles[4]] = Absent
    /\ texts[TextFiles[5]] # Absent

SearchInit ==
    /\ files \in [Paths -> {0, 1}]
    /\ locked = {}
    /\ meta_json = [p \in Paths |-> Absent]
    /\ full_json = [p \in Paths |-> Absent]
    /\ builds = 0
    /\ edits = 0
    /\ ret = NoCall
    /\ texts \in {f \in [TextPaths -> UNION {ArtifactChoices(t) : t \in TextPaths}] :
                     \A t \in TextPaths : f[t] \in ArtifactChoices(t)}
    /\ index_file \in {Absent, BuiltCatalog, EarlierCatalog}
    /\ PlainLibrary \/ OrphanLibrary \/ TwinLibrary
    /\ sret = NoCall
    /\ xret = NoCall

SearchNext ==
    \/ \E t \in TextPaths, pattern \in Patterns, is_regex \in BOOLEAN,
          case_sensitive \in BOOLEAN, context_chars \in ContextWidths :
           SearchFile(t, pattern, is_regex, case_sensitive, context_chars)
    \/ \E pattern \in Patterns, is_regex \in BOOLEAN, case_sensitive \in BOOLEAN,
          context_chars \in ContextWidths, max_results_per_file \in ResultLimits :
           SearchLibrary(pattern, is_regex, case_sensitive, context_chars,
                         max_results_per_file)

SpecSearch == SearchInit /\ [][SearchNext]_vars

Init ==
    /\ files \in [Paths -> {0, 1}]
    /\ locked = {}
    /\ meta_json = [p \in Paths |-> Absent]
    /\ full_json = [p \in Paths |-> Absent]
    /\ index_file = Absent
    /\ builds = 0
    /\ edits = 0
    /\ ret = NoCall
    /\ texts = [t \in TextPaths |-> Absent]
    /\ sret = NoCall
    /\ xret = NoCall

Next ==
    \/ \E force_reindex \in BOOLEAN : BuildIndex(force_reindex)
    \/ \E p \in Paths, f \in OutputFormats, m \in BOOLEAN : ExtractPdf(p, f, m)
    \/ \E p \in Paths, c \in Contents : WriteFile(p, c)
    \/ \E p \in Paths : DeleteFile(p)
    \/ \E p \in Paths : Chmod(p)
    \/ \E p \in Paths, w \in {"metadata", "full"}, d \in HandMade : WriteSidecar(p, w, d)

Spec == Init /\ [][Next]_vars

(***************************************************************************)
(* The Markdown adapter (src/src/markdown_extractor.py; api/extract.py     *)
(* holds the same steps for uploaded data).                                *)
(***************************************************************************)
\* s.split(c) for a separator c of one character
RECURSIVE split_on(_, _)
split_on(s, c) ==
    LET hits == {i \in 1..Len(s) : s[i] = c}
    IN  IF hits = {} THEN <<s>>
        ELSE <<SubSeq(s, 1, Least(hits) - 1)>>
             \o split_on(SubSeq(s, Least(hits) + 1, Len(s)), c)

\* sep.join(parts)
RECURSIVE join_with(_, _)
join_with(parts, sep) ==
    IF Len(parts) = 0 THEN <<>>
    ELSE IF Len(parts) = 1 THEN parts[1]
    ELSE parts[1] \o sep \o join_with(Tail(parts), sep)

Fence == <<"-", "-", "-">>

\* the offsets of s at which lit occurs
Occurrences(s, lit) == {i \in 0..(Len(s) - Len(lit)) : StartsWith(s, i, lit)}

\* content.split("---", 2)
split_fence(content) ==
    IF Occurrences(content, Fence) = {} THEN <<content>>
    ELSE LET i == Least(Occurrences(content, Fence))
             rest == Slice(content, i + 3, Len(content))
         IN  IF Occurrences(rest, Fence) = {}
             THEN <<Slice(content, 0, i), rest>>
             ELSE LET j == Least(Occurrences(rest, Fence))
                  IN  <<Slice(content, 0, i), Slice(rest, 0, j),
                        Slice(rest, j + 3, Len(rest))>>

\* yaml.safe_load on the blocks of the model, with the type of the value it
\* returns: lines of the form "key: value" make a mapping (dict), lines of
\* the form "- item" a sequence (list), one line of other text a plain
\* scalar (str), a block without text None, and a flow sequence that
\* is opened and not closed makes the parser raise yaml.YAMLError.
KeyEnds(line) == Occurrences(line, <<":", " ">>)
ItemMark == <<"-", " ">>
yaml_safe_load(block) ==
    LET lines == split_on(block, "\n")
        opened == Cardinality({i \in 1..Len(block) : block[i] = "["})
        closed == Cardinality({i \in 1..Len(block) : block[i] = "]"})
        entries == {k \in 1..Len(lines) : KeyEnds(lines[k]) # {}}
        key(k) == strip(Slice(lines[k], 0, Least(KeyEnds(lines[k]))))
        val(k) == strip(Slice(lines[k], Least(KeyEnds(lines[k])) + 2, Len(lines[k])))
        items == {k \in 1..Len(lines) : StartsWith(lines[k], 0, ItemMark)}
        nth(n) == CHOOSE k \in items : Cardinality({j \in items : j <= k}) = n
    IN  IF opened # closed THEN [raise |-> "YAMLError"]
        ELSE IF entries # {}
        THEN [raise |-> "none", type |-> "dict",
              value |-> [x \in {key(k) : k \in entries} |->
                            val(CHOOSE k \in entries :
                                   /\ key(k) = x
                                   /\ \A j \in entries : key(j) = x => j <= k)]]
        ELSE IF items # {}
        THEN [raise |-> "none", type |-> "list",
              value |-> [n \in 1..Cardinality(items) |->
                            strip(Slice(lines[nth(n)], 2, Len(lines[nth(n)])))]]
        ELSE IF strip(block) # <<>>
        THEN [raise |-> "none", type |-> "str", value |-> strip(block)]
        ELSE [raise |-> "none", type |-> "NoneType", value |-> None]

\* `loaded or {}`: the loaded value unless it is falsy
OrEmptyDict(loaded) ==
    IF loaded.type = "NoneType" \/ loaded.value = <<>>
    THEN [type |-> "dict", value |-> EmptyDict]
    ELSE [type |-> loaded.type, value |-> loaded.value]

\* extract_frontmatter with the body cut out before the block is parsed, so
\* that a parse failure leaves the cut body behind
extract_frontmatter_BodyFirst(content) ==
    IF StartsWith(content, 0, Fence) /\ Len(split_fence(content)) >= 3
    THEN LET parts == split_fence(content)
             loaded == yaml_safe_load(parts[2])
         IN  IF loaded.raise = "none"
             THEN [frontmatter |-> OrEmptyDict(loaded).value,
                   type |-> OrEmptyDict(loaded).type,
                   body |-> strip(parts[3])]
             ELSE [frontmatter |-> EmptyDict, type |-> "dict",
                   body |-> strip(parts[3])]
    ELSE [frontmatter |-> EmptyDict, type |-> "dict", body |-> content]

\* markdown_extractor.py 26-41.  type is the Python type of the value
\* returned as frontmatter.
extract_frontmatter(content) ==
    IF StartsWith(content, 0, Fence) /\ Len(split_fence(content)) >= 3
    THEN LET parts == split_fence(content)
             loaded == yaml_safe_load(parts[2])
         IN  IF loaded.raise = "none"
             THEN [frontmatter |-> OrEmptyDict(loaded).value,
                   type |-> OrEmptyDict(loaded).type,
                   body |-> strip(parts[3])]
             ELSE [frontmatter |-> EmptyDict, type |-> "dict", body |-> content]
    ELSE [frontmatter |-> EmptyDict, type |-> "dict", body |-> content]

\* the number of "#" a line starts with
HashRun(l) == Least({i \in 0..Len(l) : i = Len(l) \/ l[i + 1] # "#"})
\* the number of "#" a line ends with
HashTail(l) == Least({i \in 0..Len(l) : i = Len(l) \/ l[Len(l) - i] # "#"})

\* re.match(r"^(#{1,6})\s+(.+)$", line.strip())
IsHeading(line) ==
    LET l == strip(line)
        h == HashRun(l)
    IN  h \in 1..6 /\ h < Len(l) /\ l[h + 1] \in Whitespace

\* match.group(2).strip() without a closing run of "#"
HeadingTitle(line) ==
    LET l == strip(line)
        title == strip(Slice(l, HashRun(l), Len(l)))
    IN  IF HashTail(title) = 0 THEN title
        ELSE rstrip(Slice(title, 0, Len(title) - HashTail(title)))

\* markdown_extractor.py 44-63
RECURSIVE HeadingsFrom(_, _)
HeadingsFrom(lines, i) ==
    IF i > Len(lines) THEN <<>>
    ELSE (IF IsHeading(lines[i])
          THEN << [level |-> HashRun(strip(lines[i])),
                   title |-> HeadingTitle(lines[i]),
                   line |-> i] >>
          ELSE <<>>)
         \o HeadingsFrom(lines, i + 1)
extract_headings(content) == HeadingsFrom(split_on(content, "\n"), 1)

chars_per_page == 3000
\* max(1, <number of characters> // chars_per_page + 1)
estimate_pages(total_chars) == Max(1, (total_chars \div chars_per_page) + 1)

ContentTitle == <<"C", "o", "n", "t", "e", "n", "t">>

\* split_into_sections that gives the single section of a document without
\* headings the text of its first line only
split_into_sections_FirstLine(content, toc) ==
    IF toc = <<>>
    THEN << [section |-> 1, title |-> ContentTitle,
             text |-> strip(first_line(content))] >>
    ELSE LET lines == split_on(content, "\n")
         IN  [i \in 1..Len(toc) |->
                LET start_line == toc[i].line - 1
                    end_line == IF i + 1 <= Len(toc) THEN toc[i + 1].line - 1
                                ELSE Len(lines)
                IN  [section |-> i,
                     title |-> toc[i].title,
                     level |-> toc[i].level,
                     text |-> strip(join_with(Slice(lines, start_line, end_line), NL)),
                     span |-> [start |-> start_line, end |-> end_line]]]

\* markdown_extractor.py 71-94.  span is the range of lines the text of a
\* section was taken from.
split_into_sections(content, toc) ==
    IF toc = <<>>
    THEN << [section |-> 1, title |-> ContentTitle, text |-> strip(content)] >>
    ELSE LET lines == split_on(content, "\n")
         IN  [i \in 1..Len(toc) |->
                LET start_line == toc[i].line - 1
                    end_line == IF i + 1 <= Len(toc) THEN toc[i + 1].line - 1
                                ELSE Len(lines)
                IN  [section |-> i,
                     title |-> toc[i].title,
                     level |-> toc[i].level,
                     text |-> strip(join_with(Slice(lines, start_line, end_line), NL)),
                     span |-> [start |-> start_line, end |-> end_line]]]

\* len(s.split()): the number of offsets at which a word starts
word_count(s) ==
    Cardinality({i \in 1..Len(s) :
                    s[i] \notin Whitespace /\ (i = 1 \/ s[i - 1] \in Whitespace)})

TitleKey == <<"t", "i", "t", "l", "e">>
AuthorKey == <<"a", "u", "t", "h", "o", "r">>

\* markdown_extractor.py 97-106 (the fields the text rendition uses), for a
\* frontmatter that is a dict
extract_metadata_from_frontmatter(frontmatter, filename) ==
    [title |-> IF Get(frontmatter, TitleKey, None) # None
               THEN frontmatter[TitleKey] ELSE filename[1],
     author |-> Get(frontmatter, AuthorKey, None)]

Adapters == {"cli", "api"}

\* extract_markdown (markdown_extractor.py 109-201) and the extract_markdown
\* of api/extract.py 164-232, which leaves page_count out of the metadata.
\* filename is the pair <<stem, suffix>>.  Both read the metadata with
\* frontmatter.get (markdown_extractor.py 100, api/extract.py 173), which a
\* str and a list do not have: the call ends there with AttributeError,
\* holding the frontmatter and the body it had computed.
ExtractMarkdown(adapter, filename, content) ==
    /\ xret = NoCall
    /\ LET fm == extract_frontmatter(content)
           body == fm.body
           metadata == extract_metadata_from_frontmatter(fm.frontmatter, filename)
           toc == extract_headings(body)
           stats == [word_count |-> word_count(body), char_count |-> Len(body)]
           sections == split_into_sections(body, toc)
       IN  xret' =
             IF fm.type # "dict"
             THEN [op |-> "extract_markdown",
                   adapter |-> adapter,
                   filename |-> filename,
                   content |-> content,
                   outcome |-> "raised",
                   error |-> "AttributeError",
                   frontmatter |-> fm.frontmatter,
                   body |-> body]
             ELSE
             [op |-> "extract_markdown",
              adapter |-> adapter,
              filename |-> filename,
              content |-> content,
              outcome |-> "ok",
              frontmatter |-> fm.frontmatter,
              body |-> body,
              metadata |->
                 IF adapter = "cli"
                 THEN [title |-> metadata.title, author |-> metadata.author,
                       page_count |-> estimate_pages(Len(body)),
                       word_count |-> stats.word_count,
                       char_count |-> stats.char_count]
                 ELSE [title |-> metadata.title, author |-> metadata.author,
                       word_count |-> stats.word_count,
                       char_count |-> stats.char_count],
              toc |-> toc,
              sections |-> sections]
    /\ UNCHANGED <<ivars, svars>>

(***************************************************************************)
(* The Word adapter (src/src/docx_extractor.py; api/extract.py holds the   *)
(* same steps for uploaded data).  A document is the sequence of its       *)
(* paragraphs, each with the name of its style and its text, and the title *)
(* of its core properties (None when it has none).                         *)
(***************************************************************************)
HeadingWord == <<"H", "e", "a", "d", "i", "n", "g">>
HeadingPrefix == <<"H", "e", "a", "d", "i", "n", "g", " ">>

\* int(style_name.replace("Heading ", "").strip()): ok is FALSE where int
\* raises ValueError
heading_level(style_name) ==
    LET rest == strip(IF StartsWith(style_name, 0, HeadingPrefix)
                      THEN Slice(style_name, Len(HeadingPrefix), Len(style_name))
                      ELSE style_name)
    IN  IF Len(rest) > 0 /\ \A k \in 1..Len(rest) : IsDigit(rest[k])
        THEN [ok |-> TRUE, level |-> int(rest)]
        ELSE [ok |-> FALSE]

\* docx_extractor.py 44-66
RECURSIVE TocFrom(_, _)
TocFrom(paragraphs, paragraph_num) ==
    IF paragraph_num > Len(paragraphs) THEN <<>>
    ELSE LET para == paragraphs[paragraph_num]
         IN  (IF /\ StartsWith(para.style, 0, HeadingWord)
                 /\ heading_level(para.style).ok
                 /\ strip(para.text) # <<>>
              THEN << [level |-> heading_level(para.style).level,
                       title |-> strip(para.text),
                       paragraph |-> paragraph_num] >>
              ELSE <<>>)
             \o TocFrom(paragraphs, paragraph_num + 1)
extract_toc_from_headings(paragraphs) == TocFrom(paragraphs, 1)

\* "\n\n".join(para.text for para in paras if para.text.strip())
RECURSIVE TextsOf(_)
TextsOf(paras) ==
    IF Len(paras) = 0 THEN <<>>
    ELSE (IF strip(paras[1].text) # <<>> THEN <<paras[1].text>> ELSE <<>>)
         \o TextsOf(Tail(paras))
join_paragraphs(paras) == join_with(TextsOf(paras), NL \o NL)

\* extract_text_by_section that numbers the sections as enumerate does,
\* from 0
extract_text_by_section_ZeroBased(paragraphs, toc) ==
    IF toc = <<>>
    THEN << [section |-> 1, title |-> ContentTitle,
             text |-> join_paragraphs(paragraphs)] >>
    ELSE [i \in 1..Len(toc) |->
            LET start_idx == toc[i].paragraph - 1
                end_idx == IF i + 1 <= Len(toc) THEN toc[i + 1].paragraph - 1
                           ELSE Len(paragraphs)
            IN  [section |-> i - 1,
                 title |-> toc[i].title,
                 level |-> toc[i].level,
                 text |-> join_paragraphs(Slice(paragraphs, start_idx, end_idx)),
                 span |-> [start |-> start_idx, end |-> end_idx]]]

\* docx_extractor.py 69-103.  span is the range of paragraphs the text of a
\* section was taken from.
extract_text_by_section(paragraphs, toc) ==
    IF toc = <<>>
    THEN << [section |-> 1, title |-> ContentTitle,
             text |-> join_paragraphs(paragraphs)] >>
    ELSE [i \in 1..Len(toc) |->
            LET start_idx == toc[i].paragraph - 1
                end_idx == IF i + 1 <= Len(toc) THEN toc[i + 1].paragraph - 1
                           ELSE Len(paragraphs)
            IN  [section |-> i,
                 title |-> toc[i].title,
                 level |-> toc[i].level,
                 text |-> join_paragraphs(Slice(paragraphs, start_idx, end_idx)),
                 span |-> [start |-> start_idx, end |-> end_idx]]]

\* sum(len(para.text) for para in doc.paragraphs)
RECURSIVE total_chars(_)
total_chars(paragraphs) ==
    IF Len(paragraphs) = 0 THEN 0
    ELSE Len(paragraphs[1].text) + total_chars(Tail(paragraphs))

\* " ".join(s["text"] for s in sections)
RECURSIVE SectionTexts(_)
SectionTexts(sections) ==
    IF Len(sections) = 0 THEN <<>>
    ELSE <<sections[1].text>> \o SectionTexts(Tail(sections))

DocxAdapters == {"cli", "data", "api"}

\* extract_docx (docx_extractor.py 113-197), extract_docx_from_data
\* (200-262) and the extract_docx of api/extract.py 274-345, which sets no
\* page_count
ExtractDocx(adapter, filename, doc) ==
    /\ xret = NoCall
    /\ LET toc == extract_toc_from_headings(doc.paragraphs)
           sections == extract_text_by_section(doc.paragraphs, toc)
           total_text == join(SectionTexts(sections))
           title == IF doc.title # None THEN doc.title ELSE filename[1]
       IN  xret' =
             [op |-> "extract_docx",
              adapter |-> adapter,
              filename |-> filename,
              doc |-> doc,
              outcome |-> "ok",
              metadata |->
                 IF adapter \in {"cli", "data"}
                 THEN [title |-> title,
                       page_count |-> estimate_pages(total_chars(doc.paragraphs)),
                       word_count |-> word_count(total_text),
                       char_count |-> Len(total_text),
                       paragraph_count |-> Len(doc.paragraphs)]
                 ELSE [title |-> title,
                       word_count |-> word_count(total_text),
                       char_count |-> Len(total_text),
                       paragraph_count |-> Len(doc.paragraphs)],
              toc |-> toc,
              sections |-> sections]
    /\ UNCHANGED <<ivars, svars>>

(***************************************************************************)
(* The documents the adapters are run on.                                  *)
(***************************************************************************)
\* number of lines of a Markdown body and of paragraphs of a Word document
MaxUnits == 3

\* all sequences over S of length at most n
RECURSIVE SeqsUpTo(_, _)
SeqsUpTo(S, n) ==
    IF n = 0 THEN {<<>>}
    ELSE SeqsUpTo(S, n - 1)
         \cup {Append(q, x) : q \in {r \in SeqsUpTo(S, n - 1) : Len(r) = n - 1},
                              x \in S}

\* the lines of a Markdown body: two headings, a line of text and an empty
\* line
MdLines ==
    { <<"#", " ", "I", "n", "t", "r", "o">>, <<"#", "#", " ", "U", "s", "a", "g", "e", " ", "#", "#">>, <<"a", "l", "p", "h", "a", " ", "b", "e", "t", "a">>, <<>> }

\* what can precede the body: nothing, a frontmatter block with a title, an
\* empty block, a block that is not valid YAML, a block that is opened and
\* never closed, a block holding a plain scalar and a block holding a
\* sequence
MdFronts ==
    { <<>>,
      <<"-", "-", "-", "\n", "D", "e", "m", "o", "\n", "-", "-", "-", "\n">>,
      <<"-", "-", "-", "\n", "-", " ", "D", "e", "m", "o", "\n", "-", " ", "A", "n", "n", "\n", "-", "-", "-", "\n">>,
      <<"-", "-", "-", "\n", "t", "i", "t", "l", "e", ":", " ", "D", "e", "m", "o", "\n", "a", "u", "t", "h", "o", "r", ":", " ", "A", "n", "n", "\n", "-", "-", "-", "\n">>,
      <<"-", "-", "-", "\n", "-", "-", "-", "\n">>,
      <<"-", "-", "-", "\n", "t", "i", "t", "l", "e", ":", " ", "[", "D", "e", "m", "o", "\n", "-", "-", "-", "\n">>,
      <<"-", "-", "-", "\n", "t", "i", "t", "l", "e", ":", " ", "D", "e", "m", "o", "\n">> }

MdContents ==
    { front \o join_with(lines, NL) :
        front \in MdFronts, lines \in SeqsUpTo(MdLines, MaxUnits) }

MdName == << <<"n", "o", "t", "e", "s">>, <<".", "m", "d">> >>
DocxName == << <<"r", "e", "p", "o", "r", "t">>, <<".", "d", "o", "c", "x">> >>

\* the paragraphs of a Word document: two headings, a paragraph of text, an
\* empty paragraph, a heading without text and a paragraph whose style only
\* starts with the word Heading
DocxParagraphs ==
    { [style |-> <<"H", "e", "a", "d", "i", "n", "g", " ", "1">>, text |-> <<"I", "n", "t", "r", "o">>],
      [style |-> <<"H", "e", "a", "d", "i", "n", "g", " ", "2">>, text |-> <<" ", "U", "s", "a", "g", "e", " ">>],
      [style |-> <<"N", "o", "r", "m", "a", "l">>, text |-> <<"a", "l", "p", "h", "a", " ", "b", "e", "t", "a">>],
      [style |-> <<"N", "o", "r", "m", "a", "l">>, text |-> <<>>],
      [style |-> <<"H", "e", "a", "d", "i", "n", "g", " ", "1">>, text |-> <<" ">>],
      [style |-> <<"H", "e", "a", "d", "i", "n", "g">>, text |-> <<"g", "a", "m", "m", "a">>] }

\* the lengths of the texts at which the estimated page count changes
LongTexts == {2999, 3000, 5999, 6000}

\* short documents of every shape, and documents of one or two paragraphs
\* with the lengths of LongTexts
DocxDocs ==
    { [title |-> t, paragraphs |-> ps] :
        t \in {None, Demo}, ps \in SeqsUpTo(DocxParagraphs, MaxUnits) }
    \cup
    { [title |-> None,
       paragraphs |-> << [style |-> <<"N", "o", "r", "m", "a", "l">>, text |-> Rep("x", n)] >>] :
        n \in LongTexts }
    \cup
    { [title |-> None,
       paragraphs |-> << [style |-> <<"H", "e", "a", "d", "i", "n", "g", " ", "1">>, text |-> Rep("x", n - 1)],
                         [style |-> <<"N", "o", "r", "m", "a", "l">>, text |-> <<"y">>] >>] :
        n \in LongTexts }

(***************************************************************************)
(* Content hashing.  hashlib.sha256 is an external collaborator: update    *)
(* appends a block to the message fed so far and the digest is a function  *)
(* of that message, taken to be collision free (the digest of message m is *)
(* written as the pair of the scheme and m).                               *)
(***************************************************************************)
sha256_new == <<>>
sha256_update(h, byte_block) == h \o byte_block
hexdigest(h) == <<"sha256:", h>>

\* f.read(n) with the file position at pos
read(data, pos, n) == Slice(data, pos, Min(Len(data), pos + n))

\* the size of the blocks compute_file_hash reads
BLOCK == 4096

\* HashBlocks that stops at the first block shorter than the block size
\* without feeding it
RECURSIVE HashBlocks_FullOnly(_, _, _, _)
HashBlocks_FullOnly(data, pos, block_size, h) ==
    LET byte_block == read(data, pos, block_size)
    IN  IF Len(byte_block) < block_size THEN h
        ELSE HashBlocks_FullOnly(data, pos + Len(byte_block), block_size,
                                 sha256_update(h, byte_block))

\* extractor.py 16-18: for byte_block in iter(lambda: f.read(4096), b"")
RECURSIVE HashBlocks(_, _, _, _)
HashBlocks(data, pos, block_size, h) ==
    LET byte_block == read(data, pos, block_size)
    IN  IF byte_block = <<>> THEN h
        ELSE HashBlocks(data, pos + Len(byte_block), block_size,
                        sha256_update(h, byte_block))

\* compute_file_hash of a file whose bytes are data, read in blocks of
\* block_size bytes
compute_file_hash_blocks(data, block_size) ==
    hexdigest(HashBlocks(data, 0, block_size, sha256_new))

\* markdown_extractor.py 21-23
compute_data_hash(data) == hexdigest(sha256_update(sha256_new, data))

\* length of the byte sequences that are hashed
MaxBytes == 4
Bytes == {0, 255}
BlockSizes == {1, 2, 3, BLOCK}
HashInputs ==
    [data : SeqsUpTo(Bytes, MaxBytes), block_size : BlockSizes]
    \cup [data : {Rep(255, BLOCK - 1), Rep(255, BLOCK), Rep(0, BLOCK + 1),
                  Rep(0, 2 * BLOCK)},
          block_size : {BLOCK}]

\* both entry points run on the same bytes
HashBoth(data, block_size) ==
    /\ xret = NoCall
    /\ xret' = [op |-> "hash",
                data |-> data,
                block_size |-> block_size,
                file_hash |-> compute_file_hash_blocks(data, block_size),
                data_hash |-> compute_data_hash(data)]
    /\ UNCHANGED <<ivars, svars>>

(***************************************************************************)
(* extract_batch (src/pdf_extractor.py).  A file of the batch either       *)
(* extracts, or fails inside its adapter after the adapter has created the *)
(* output directory (a document that cannot be parsed), or fails before    *)
(* that (a path of a list file that does not exist).                       *)
(***************************************************************************)
FileKinds == {"ok", "corrupt", "missing"}
\* str(e) of the exception extract_file raises
ErrorOf(kind) ==
    IF kind = "missing" THEN "file not found" ELSE "invalid or corrupted document"

\* lines 174-200: the loop over files from position i on
RECURSIVE BatchLoop(_, _, _, _)
BatchLoop(batch, i, continue_on_error, acc) ==
    IF i > Len(batch) THEN acc
    ELSE LET file_path == <<"file", i>>
             made == [acc EXCEPT !.attempted = Append(@, i),
                                 !.dir_made = @ \/ batch[i] # "missing"]
         IN  IF batch[i] = "ok"
             THEN BatchLoop(batch, i + 1, continue_on_error,
                            [made EXCEPT !.success_count = @ + 1])
             ELSE LET failed == [made EXCEPT
                                    !.fail_count = @ + 1,
                                    !.errors = Append(@, <<file_path, ErrorOf(batch[i])>>)]
                  IN  IF ~continue_on_error THEN failed
                      ELSE BatchLoop(batch, i + 1, continue_on_error, failed)

\* extract_batch, lines 142-213.  batch_output says whether --batch-output
\* was given and out_exists whether that directory exists before the call;
\* without it every file is extracted next to itself and the log goes to
\* the working directory.
ExtractBatch(batch, continue_on_error, batch_output, out_exists) ==
    /\ xret = NoCall
    /\ batch_output \/ ~out_exists
    /\ LET done == BatchLoop(batch, 1, continue_on_error,
                             [attempted |-> <<>>, success_count |-> 0,
                              fail_count |-> 0, errors |-> <<>>,
                              dir_made |-> FALSE])
           log_dir == ~batch_output \/ out_exists \/ done.dir_made
       IN  xret' =
             [op |-> "extract_batch",
              batch |-> batch,
              continue_on_error |-> continue_on_error,
              batch_output |-> batch_output,
              out_exists |-> out_exists,
              attempted |-> done.attempted,
              outcome |-> IF done.fail_count # 0 /\ ~log_dir THEN "raised" ELSE "ok",
              error |-> IF done.fail_count # 0 /\ ~log_dir
                        THEN "FileNotFoundError" ELSE "none",
              returned |-> IF done.fail_count # 0 /\ ~log_dir THEN "nothing"
                           ELSE IF done.fail_count = 0 THEN "True" ELSE "False",
              error_log |-> IF done.fail_count # 0 /\ log_dir
                            THEN [kind |-> "text", lines |-> done.errors]
                            ELSE Absent]
    /\ UNCHANGED <<ivars, svars>>

\* number of files of a batch
MaxBatch == 3

(***************************************************************************)
(* The adapters, the hashers and the batch run on every input of the       *)
(* model, one call in a behaviour.                                         *)
(***************************************************************************)
ExtractInit ==
    /\ files = [p \in Paths |-> 0]
    /\ locked = {}
    /\ meta_json = [p \in Paths |-> Absent]
    /\ full_json = [p \in Paths |-> Absent]
    /\ index_file = Absent
    /\ builds = 0
    /\ edits = 0
    /\ ret = NoCall
    /\ texts = [t \in TextPaths |-> Absent]
    /\ sret = NoCall
    /\ xret = NoCall

ExtractNext ==
    \/ \E adapter \in Adapters, content \in MdContents :
           ExtractMarkdown(adapter, MdName, content)
    \/ \E adapter \in DocxAdapters, doc \in DocxDocs :
           ExtractDocx(adapter, DocxName, doc)
    \/ \E in \in HashInputs : HashBoth(in.data, in.block_size)
    \/ \E batch \in SeqsUpTo(FileKinds, MaxBatch), continue_on_error \in BOOLEAN,
          batch_output \in BOOLEAN, out_exists \in BOOLEAN :
           ExtractBatch(batch, continue_on_error, batch_output, out_exists)

SpecExtract == ExtractInit /\ [][ExtractNext]_vars

(***************************************************************************)
(* Properties of the indexer.                                              *)
(***************************************************************************)
\* the documents map of the persisted catalog
Documents == IF index_file = Absent THEN EmptyDict ELSE index_file.obj.documents

\* this step is a build_index call that returned a catalog
BuildStep == builds' = builds + 1 /\ ret'.outcome = "ok"

\* the files build_index enumerates
Candidates == {p \in Paths : files[p] # 0 /\ suffix(p) = ".pdf"}

\* the indexed files whose content no longer has the stored hash
Changed ==
    {p \in Candidates : p \in DOMAIN Documents
                        /\ Documents[p].file_hash # compute_file_hash(p)}

\* C1: a build without force leaves the entry of every file whose stored
\* hash equals its current hash identical in every field, indexed_date
\* included.
C1_SameHashEntryKept ==
    [][ (BuildStep /\ ~ret'.force) =>
          \A p \in Candidates :
              (p \in DOMAIN Documents
               /\ Documents[p].file_hash = compute_file_hash(p))
              => (p \in DOMAIN Documents' /\ Documents'[p] = Documents[p]) ]_vars

C1_Witness ==
    /\ RanBuild(ret) /\ ~ret.force
    /\ ret.skipped # {}
    /\ ret.written # {}

\* C2: when exactly one indexed file has changed, a build without force
\* replaces that file's entry (new file_hash, new indexed_date) and leaves
\* the entry of every other file as it was.
C2_OnlyChangedEntryReplaced ==
    [][ (BuildStep /\ ~ret'.force /\ Cardinality(Changed) = 1) =>
          \A p \in Changed :
              /\ Documents'[p].file_hash = compute_file_hash(p)
              /\ Documents'[p].file_hash # Documents[p].file_hash
              /\ Documents'[p].indexed_date > Documents[p].indexed_date
              /\ \A q \in DOMAIN Documents \ {p} :
                     q \in DOMAIN Documents' /\ Documents'[q] = Documents[q] ]_vars

C2_Witness ==
    /\ RanBuild(ret) /\ ~ret.force
    /\ Cardinality(ret.replaced) = 1
    /\ ret.written = ret.replaced
    /\ ret.skipped # {}

\* C3: a build without force that directly follows a build without force
\* yields the same catalog except for updated_date, which differs.
C3_RebuildIdempotent ==
    [][ (BuildStep /\ ~ret'.force /\ RanBuild(ret) /\ ~ret.force) =>
          /\ Documents' = Documents
          /\ index_file'.obj =
                 [index_file.obj EXCEPT !.updated_date = index_file'.obj.updated_date]
          /\ index_file'.obj.updated_date # index_file.obj.updated_date ]_vars

C3_Witness ==
    /\ RanBuild(ret) /\ ~ret.force
    /\ ret.follows = "build"
    /\ Cardinality(DOMAIN Documents) = 2

\* C4: every build keeps the created_date written by the first build and
\* sets updated_date anew, whatever its force flag.
C4_CreatedDatePreserved ==
    [][ (BuildStep /\ index_file # Absent) =>
          /\ index_file'.obj.created_date = index_file.obj.created_date
          /\ index_file'.obj.updated_date > index_file.obj.updated_date ]_vars

\* C5: an error on one candidate file or on its sidecar does not abort the
\* build: the catalog is persisted and holds every other candidate.
C5_FileErrorDoesNotAbort ==
    [][ builds' = builds + 1 =>
          /\ ret'.outcome = "ok"
          /\ index_file' # Absent
          /\ \A p \in Candidates :
                 (p \notin locked /\ meta_json[p] # Corrupt)
                 => p \in DOMAIN Documents' ]_vars

\* C6: after a build every file under the root with a supported extension
\* (compared without regard to case) has an entry keyed by its relative path.
C6_EverySupportedFileIndexed ==
    [][ BuildStep =>
          \A p \in Paths :
              (files[p] # 0 /\ lower(suffix(p)) \in SUPPORTED_EXTENSIONS)
              => p \in DOMAIN Documents' ]_vars

\* the candidates a build with the given force flag writes an entry for
Reindexed(force_reindex) ==
    {p \in Candidates : \/ force_reindex
                        \/ p \notin DOMAIN Documents
                        \/ Documents[p].file_hash # compute_file_hash(p)}

C22_EveryEntryStampedByBuild ==
    [][ BuildStep =>
          \A p \in DOMAIN Documents' :
              Documents'[p].indexed_date >= now(0) ]_vars

\* C23: a build that fails leaves the persisted catalog exactly as it was,
\* whatever entries it had already prepared; a build that returns has
\* written a catalog that holds every candidate file and counts every entry.
C23_CatalogWrittenLastOrNotAtAll ==
    [][ builds' = builds + 1 =>
          IF ret'.outcome = "raised"
          THEN index_file' = index_file
          ELSE /\ index_file' # Absent
               /\ Candidates \subseteq DOMAIN Documents'
               /\ index_file'.obj.total_documents = Cardinality(DOMAIN Documents') ]_vars

C23_Witness ==
    /\ ret.op = "build_index"
    /\ ret.outcome = "raised"
    /\ ret.written # {}
    /\ index_file # Absent
    /\ \E p \in ret.written :
           \/ p \notin DOMAIN Documents
           \/ Documents[p].file_hash # compute_file_hash(p)

\* C25: a build without force keeps every key of the prior catalog; the
\* entry of every key whose file is gone or has its stored hash is kept as
\* it was, and total_documents counts all of them.
C25_UnforcedBuildKeepsEveryKey ==
    [][ (BuildStep /\ ~ret'.force) =>
          /\ \A p \in DOMAIN Documents :
                 /\ p \in DOMAIN Documents'
                 /\ p \notin Changed => Documents'[p] = Documents[p]
          /\ index_file'.obj.total_documents = Cardinality(DOMAIN Documents') ]_vars

C25_Witness ==
    /\ RanBuild(ret) /\ ~ret.force
    /\ \E p \in DOMAIN Documents : files[p] = 0
    /\ index_file.obj.total_documents > Cardinality(Candidates)

\* C26: a build with force yields a documents map whose keys are exactly
\* the PDF files found under the root, each entry written by this build
\* from the file's current content.
C26_ForcedBuildStartsFromNothing ==
    [][ (BuildStep /\ ret'.force) =>
          /\ DOMAIN Documents' = Candidates
          /\ ret'.written = Candidates
          /\ ret'.skipped = {}
          /\ \A p \in Candidates :
                 /\ Documents'[p].indexed_date >= now(0)
                 /\ Documents'[p].file_hash = compute_file_hash(p) ]_vars

C26_Witness ==
    /\ RanBuild(ret) /\ ret.force
    /\ ret.follows = "build"
    /\ ret.written = Candidates
    /\ Cardinality(Candidates) = 2

\* C27: after a build without force, the entry of every file on disk has
\* extracted = TRUE exactly when a <stem>_metadata.json or a <stem>.json
\* sidecar exists next to the file.
C27_ExtractedFlagTracksSidecars ==
    (RanBuild(ret) /\ ~ret.force) =>
        \A p \in Candidates \cap DOMAIN Documents :
            Documents[p].extracted
                <=> (meta_json[p] # Absent \/ full_json[p] # Absent)

(***************************************************************************)
(* Properties of the search engine.                                        *)
(***************************************************************************)
\* the most recent call is a search_file call that returned its results
SearchedFile == sret.op = "search_file" /\ sret.outcome = "ok"

\* C8: search_library with is_regex and a pattern that does not compile
\* fails with the invalid-pattern error whatever the library holds, and
\* has opened no text artifact when it fails.
C8_InvalidPatternFailsFirst ==
    (sret.op = "search_library" /\ sret.is_regex
     /\ ~re_compile(sret.pattern, TRUE).ok)
    => /\ sret.outcome = "raised"
       /\ sret.error = "ValueError"
       /\ sret.opened = <<>>

C10_SectionLocatorReported ==
    (/\ SearchedFile /\ ~sret.is_regex
     /\ texts[sret.file_path].kind = "text"
     /\ texts[sret.file_path].origin.adapter = "markdown") =>
        LET art == texts[sret.file_path]
            elems == re_compile(sret.pattern, FALSE).elems
        IN  \A k \in 1..Len(art.origin.units) :
                (/\ Len(finditer(elems, art.content, sret.case_sensitive)) = 1
                 /\ finditer(elems, art.origin.units[k].text, sret.case_sensitive) # <<>>)
                => /\ Len(sret.results) = 1
                   /\ sret.results[1].page = art.origin.units[k].section

Ellipsis == <<".", ".", ".">>
EndsWith(s, lit) == Len(lit) <= Len(s) /\ StartsWith(s, Len(s) - Len(lit), lit)
\* the display text of the window [a, b) of content, before any ellipsis
WindowText(content, a, b) == join(split(strip(Slice(content, a, b))))

\* C11: the context of every match is the display text of its final window
\* with "..." put in front exactly when the left edge of the window is
\* greater than 0 and "..." appended exactly when the right edge is less
\* than the length of the text; a match at offset 0 gets no leading
\* ellipsis and a match that ends the text gets no trailing one.
C11_EllipsisIffWindowTruncated ==
    SearchedFile /\ sret.results # <<>> =>
        LET content == texts[sret.file_path].content
        IN  \A k \in 1..Len(sret.results) :
                LET r == sret.results[k]
                    body == WindowText(content, r.span.ctx_start, r.span.ctx_end)
                IN  /\ r.context =
                          (IF r.span.ctx_start > 0 THEN Ellipsis ELSE <<>>)
                          \o body
                          \o (IF r.span.ctx_end < Len(content) THEN Ellipsis ELSE <<>>)
                    /\ r.span.start = 0 => r.span.ctx_start = 0
                    /\ r.span.end = Len(content) => r.span.ctx_end = Len(content)

\* one call reports a match at the very start without a leading ellipsis, a
\* match at the very end without a trailing one, and a match with both
C11_Witness ==
    /\ SearchedFile /\ sret.results # <<>>
    /\ LET content == texts[sret.file_path].content
           rs == sret.results
       IN  /\ \E k \in 1..Len(rs) :
                 /\ rs[k].span.start = 0
                 /\ ~StartsWith(rs[k].context, 0, Ellipsis)
                 /\ EndsWith(rs[k].context, Ellipsis)
           /\ \E k \in 1..Len(rs) :
                 /\ rs[k].span.end = Len(content)
                 /\ ~EndsWith(rs[k].context, Ellipsis)
                 /\ StartsWith(rs[k].context, 0, Ellipsis)
           /\ \E k \in 1..Len(rs) :
                 /\ rs[k].span.start > 0 /\ rs[k].span.end < Len(content)
                 /\ StartsWith(rs[k].context, 0, Ellipsis)
                 /\ EndsWith(rs[k].context, Ellipsis)

\* C12: the final window of every match begins at offset 0 or right after
\* a space, newline or tab, ends at the end of the text or on a space,
\* newline or tab, and contains the whole span of the match.
C12_WindowOnWordBoundaries ==
    SearchedFile /\ sret.results # <<>> =>
        LET content == texts[sret.file_path].content
        IN  \A k \in 1..Len(sret.results) :
                LET w == sret.results[k].span
                IN  /\ w.ctx_start = 0 \/ At(content, w.ctx_start - 1) \in WordBreaks
                    /\ w.ctx_end = Len(content) \/ At(content, w.ctx_end) \in WordBreaks
                    /\ 0 <= w.ctx_start /\ w.ctx_start <= w.start
                    /\ w.start <= w.end
                    /\ w.end <= w.ctx_end /\ w.ctx_end <= Len(content)

\* a match whose symmetric window fell inside a word on both sides, so that
\* both edges were moved outward
C12_Witness ==
    /\ SearchedFile /\ sret.results # <<>>
    /\ LET content == texts[sret.file_path].content
       IN  \E k \in 1..Len(sret.results) :
               LET w == sret.results[k].span
                   a == Max(0, w.start - sret.context_chars)
                   b == Min(Len(content), w.end + sret.context_chars)
               IN  /\ a > 0 /\ At(content, a - 1) \notin WordBreaks
                   /\ b < Len(content) /\ At(content, b) \notin WordBreaks
                   /\ w.ctx_start < a /\ b < w.ctx_end

\* the most recent call is a search_library call that returned its report
SearchedLibrary == sret.op = "search_library" /\ sret.outcome = "ok"

\* C13: with max_results_per_file set to n, a file with m matches is
\* reported with its first min(n, m) matches in document order and
\* match_count min(n, m); with no limit all m matches are reported.
C13_FirstMatchesUpToLimit ==
    SearchedLibrary =>
        \A t \in TextPaths :
            (texts[t] # Absent /\ FileKey(t) \in DOMAIN sret.report.results
             /\ sret.report.results[FileKey(t)].file_path = t) =>
                LET full == search_file(t, sret.pattern, sret.is_regex,
                                        sret.case_sensitive, sret.context_chars).results
                    m == Len(full)
                    n == IF sret.max_results_per_file = NoLimit THEN m
                         ELSE Min(sret.max_results_per_file, m)
                    e == sret.report.results[FileKey(t)]
                IN  /\ e.match_count = n
                    /\ e.matches = [k \in 1..n |->
                                      [page |-> full[k].page,
                                       context |-> full[k].context]]

\* C14: with a pattern that compiles, search_library returns its report
\* whatever the artifacts are: an artifact that cannot be decoded
\* contributes nothing and every other artifact is still searched.
C14_UnreadableArtifactSkipped ==
    (sret.op = "search_library"
     /\ re_compile(sret.pattern, sret.is_regex).ok) =>
        /\ sret.outcome = "ok"
        /\ \A t \in TextPaths :
              (texts[t] # Absent /\ texts[t] # Undecodable /\ ~EndsWithToc(t)
               /\ search_file(t, sret.pattern, sret.is_regex, sret.case_sensitive,
                              sret.context_chars).results # <<>>)
              => FileKey(t) \in DOMAIN sret.report.results

\* the key under which build_index files the source document of a text
\* artifact
CatalogKey(txt_path) == with_suffix(txt_path, ".pdf")

\* two titles are the same value (a title is a text or a name of the
\* library, which are values of different kinds, so both are written out)
SameTitle(x, y) == ToString(x) = ToString(y)

\* C21: the title reported for a file with matches is the metadata.title the
\* catalog stores for that file when there is a catalog with an entry for
\* it; otherwise the text after "# " on the first line of the artifact when
\* the line has that form; otherwise the stem of the artifact's name.
C21_TitleFromCatalogThenFirstLine ==
    SearchedLibrary =>
        \A key \in DOMAIN sret.report.results :
            LET e == sret.report.results[key]
                t == e.file_path
                line == first_line(texts[t].content)
            IN  SameTitle(e.title,
                    IF /\ CatalogKey(t) \in DOMAIN Documents
                       /\ "title" \in DOMAIN Get(Documents[CatalogKey(t)], "metadata", EmptyDict)
                    THEN Documents[CatalogKey(t)].metadata.title
                    ELSE IF StartsWith(line, 0, <<"#", " ">>)
                    THEN strip(Slice(line, 2, Len(line)))
                    ELSE stem(t))

\* the text artifacts search_library reads in which the query of the most
\* recent call has a match
FilesWithMatches ==
    {t \in TextPaths :
        /\ texts[t] # Absent /\ ~EndsWithToc(t)
        /\ search_file(t, sret.pattern, sret.is_regex, sret.case_sensitive,
                       sret.context_chars).results # <<>>}

\* the sum of f over the set S
RECURSIVE SumOver(_, _)
SumOver(S, f) ==
    IF S = {} THEN 0
    ELSE LET x == CHOOSE x \in S : TRUE
         IN  f[x] + SumOver(S \ {x}, f)

\* C28: in every report total_matches is the sum of match_count over the
\* entries of results, and files_with_matches is the number of text
\* artifacts with at least one match, whatever the layout of the library.
C28_ReportTotalsAgree ==
    SearchedLibrary =>
        /\ sret.report.total_matches =
              SumOver(DOMAIN sret.report.results,
                      [k \in DOMAIN sret.report.results |->
                          sret.report.results[k].match_count])
        /\ sret.report.files_with_matches = Cardinality(FilesWithMatches)

\* C29: in every result of search_file match_start and match_end lie within
\* the context in this order, and the context between them is the matched
\* text.
C29_OffsetsLocateMatchInContext ==
    SearchedFile =>
        \A k \in 1..Len(sret.results) :
            LET r == sret.results[k]
            IN  /\ 0 <= r.match_start
                /\ r.match_start <= r.match_end
                /\ r.match_end <= Len(r.context)
                /\ Slice(r.context, r.match_start, r.match_end)
                       = Slice(texts[sret.file_path].content, r.span.start, r.span.end)

(***************************************************************************)
(* Properties of the adapters, the hashers and the batch.                  *)
(***************************************************************************)
\* the most recent call is an adapter call that returned its record
Segmented == xret.op \in {"extract_markdown", "extract_docx"} /\ xret.outcome = "ok"
\* the number of units the segmenter of that call worked on, and the
\* locator (from 0) of a boundary
UnitCount ==
    IF xret.op = "extract_markdown" THEN Len(split_on(xret.body, "\n"))
    ELSE Len(xret.doc.paragraphs)
Locator(entry) ==
    IF xret.op = "extract_markdown" THEN entry.line - 1 ELSE entry.paragraph - 1

\* C15: with a non-empty boundary list the sections partition the units:
\* every unit index lies in the range of exactly one section, section i
\* runs from its boundary to the next boundary, and the last one to the end.
C15_SectionsPartitionUnits ==
    (Segmented /\ xret.toc # <<>>) =>
        /\ Len(xret.sections) = Len(xret.toc)
        /\ \A i \in 1..Len(xret.sections) :
              /\ xret.sections[i].span.start = Locator(xret.toc[i])
              /\ xret.sections[i].span.end =
                    IF i < Len(xret.toc) THEN Locator(xret.toc[i + 1])
                    ELSE UnitCount
        /\ \A u \in 0..(UnitCount - 1) :
              Cardinality({i \in 1..Len(xret.sections) :
                              /\ xret.sections[i].span.start <= u
                              /\ u < xret.sections[i].span.end}) = 1

\* C16: with an empty boundary list the segmenters return one section,
\* numbered 1 and titled "Content", whose text is the whole body: the
\* stripped body for Markdown, every paragraph with text for Word.
C16_NoBoundaryOneSection ==
    (Segmented /\ xret.toc = <<>>) =>
        /\ Len(xret.sections) = 1
        /\ xret.sections[1].section = 1
        /\ xret.sections[1].title = ContentTitle
        /\ DOMAIN xret.sections[1] = {"section", "title", "text"}
        /\ xret.op = "extract_markdown" =>
              /\ Occurrences(xret.body, xret.sections[1].text) # {}
              /\ Len(xret.sections[1].text) = Len(lstrip(rstrip(xret.body)))
        /\ xret.op = "extract_docx" =>
              xret.sections[1].text =
                  join_with(TextsOf(xret.doc.paragraphs), <<"\n", "\n">>)

\* a Markdown body of several lines without a heading, and a Word document
\* of several paragraphs without a heading
C16_Witness ==
    /\ Segmented /\ xret.toc = <<>>
    /\ \/ /\ xret.op = "extract_markdown"
          /\ xret.frontmatter # EmptyDict
          /\ Len(split_on(xret.sections[1].text, "\n")) >= 2
       \/ /\ xret.op = "extract_docx"
          /\ Len(TextsOf(xret.doc.paragraphs)) >= 2

\* C17: extract_batch stops after the first failing file unless
\* continue_on_error is set, attempts every file once when it is set,
\* writes error_log.txt exactly when a file failed, with one line per failed
\* file, and reports success exactly when no file failed.
C17_BatchIsolatesFailures ==
    xret.op = "extract_batch" =>
        LET n == Len(xret.batch)
            fails == {i \in 1..n : xret.batch[i] # "ok"}
            stop == IF fails = {} \/ xret.continue_on_error THEN n ELSE Least(fails)
            failed == {i \in fails : i <= stop}
        IN  /\ xret.attempted = [i \in 1..stop |-> i]
            /\ xret.error_log # Absent <=> failed # {}
            /\ xret.error_log # Absent =>
                  /\ Len(xret.error_log.lines) = Cardinality(failed)
                  /\ \A i \in failed :
                        \E k \in 1..Len(xret.error_log.lines) :
                            xret.error_log.lines[k] = <<<<"file", i>>, ErrorOf(xret.batch[i])>>
            /\ xret.returned = (IF failed = {} THEN "True" ELSE "False")

\* C18: hashing a file by reading it in blocks gives the same string as
\* hashing its bytes held in memory, whatever the size of the blocks.
C18_StreamedHashEqualsDataHash ==
    xret.op = "hash" => xret.file_hash = xret.data_hash

\* a file read in more than one block, the last block one that is not full
C18_Witness ==
    /\ xret.op = "hash"
    /\ Len(xret.data) > xret.block_size
    /\ Len(xret.data) % xret.block_size # 0
    /\ xret.file_hash = compute_data_hash(xret.data)

\* C19: every record of a Word adapter carries metadata.page_count, equal to
\* max(1, totalCharacters div 3000 + 1) over the texts of all paragraphs.
C19_DocxPageCount ==
    xret.op = "extract_docx" =>
        /\ "page_count" \in DOMAIN xret.metadata
        /\ xret.metadata.page_count =
              LET total == total_chars(xret.doc.paragraphs)
              IN  IF total < 3000 THEN 1 ELSE (total \div 3000) + 1

\* the frontmatter block of a content that opens with the fence and closes
\* it fails to parse
BadFrontmatter(content) ==
    /\ StartsWith(content, 0, Fence)
    /\ Cardinality(Occurrences(content, Fence)) >= 2
    /\ yaml_safe_load(split_fence(content)[2]).raise # "none"

\* C20: when the frontmatter block does not parse, the frontmatter is empty,
\* the body is the entire original content, the extraction completes and
\* the title is the stem of the file name.
C20_BadFrontmatterKeepsContent ==
    (xret.op = "extract_markdown" /\ BadFrontmatter(xret.content)) =>
        /\ xret.outcome = "ok"
        /\ xret.frontmatter = EmptyDict
        /\ xret.body = xret.content
        /\ xret.metadata.title = xret.filename[1]

\* a block that does not parse, followed by a body with a heading
C20_Witness ==
    /\ xret.op = "extract_markdown" /\ BadFrontmatter(xret.content)
    /\ xret.body = xret.content
    /\ xret.toc # <<>>
    /\ strip(split_fence(xret.content)[3]) # xret.content

\* C24: for a heading list of N >= 1 headings the segmenters return N
\* sections numbered 1..N in the order of the headings, section i carrying
\* the title and the level of heading i and starting at that heading.
C24_SectionsNumberedInHeadingOrder ==
    (Segmented /\ xret.toc # <<>>) =>
        /\ Len(xret.sections) = Len(xret.toc)
        /\ \A i \in 1..Len(xret.toc) :
              /\ xret.sections[i].section = i
              /\ xret.sections[i].title = xret.toc[i].title
              /\ xret.sections[i].level = xret.toc[i].level
              /\ xret.sections[i].span.start = Locator(xret.toc[i])
        /\ \A i \in 1..(Len(xret.toc) - 1) :
              Locator(xret.toc[i]) < Locator(xret.toc[i + 1])

\* a Word document with two headings of different titles and levels, the
\* deeper one first
C24_Witness ==
    /\ Segmented /\ xret.op = "extract_docx"
    /\ Len(xret.sections) >= 2
    /\ xret.sections[1].level > xret.sections[2].level
    /\ xret.sections[1].title # xret.sections[2].title
    /\ xret.sections[2].section = 2

\* the frontmatter block of a content that opens with the fence and closes
\* it parses as YAML
ValidFrontmatter(content) ==
    /\ StartsWith(content, 0, Fence)
    /\ Len(split_fence(content)) >= 3
    /\ yaml_safe_load(split_fence(content)[2]).raise = "none"

\* C30: when the frontmatter block parses as YAML, whatever it parses to,
\* the extraction completes, the frontmatter is a mapping, and the title
\* is the stem of the file name unless the mapping gives one.
C30_ValidYamlNeverRaises ==
    (xret.op = "extract_markdown" /\ ValidFrontmatter(xret.content)) =>
        /\ xret.outcome = "ok"
        /\ extract_frontmatter(xret.content).type = "dict"
        /\ TitleKey \notin DOMAIN xret.frontmatter =>
              xret.metadata.title = xret.filename[1]

====
